---- MODULE Spec2Model ----
(***************************************************************************)
(* chatBot server (src/server.py): the SQLite storage layer, the request   *)
(* handlers of the threading HTTP server, and the completion gateway.      *)
(*                                                                         *)
(* Every request runs on its own worker thread (ThreadingHTTPServer).  A   *)
(* storage call opens its own connection; its statements run in one        *)
(* transaction that is committed when the `with get_db()` block is left    *)
(* and rolled back when the block raises.  A writer holds the database     *)
(* write lock from its first INSERT/UPDATE/DELETE to the commit; readers   *)
(* see the last committed database.                                        *)
(***************************************************************************)
EXTENDS Integers, Sequences, FiniteSets, TLC

\* ------------------------------------------------------------------ bounds
MaxClock == 2           \* the largest clock reading
MaxLen == 2             \* longest message list of a request body

\* One worker thread per connection, and one request per connection (the
\* handler speaks HTTP/1.0): the connections that are served concurrently.
Threads == {"w1", "w2"}

\* ------------------------------------------------------ JSON / Python values
\* A decoded JSON value: k is its kind, v its text (for strings).
JStr(s) == [k |-> "str", v |-> s]
JNull == [k |-> "null", v |-> ""]       \* JSON null, Python None
JArr == [k |-> "arr", v |-> ""]         \* JSON [], an unhashable falsy list
Absent == [k |-> "absent", v |-> ""]    \* the key is not in the object

\* dict.get(key): None when the key is missing
Get(x) == IF x = Absent THEN JNull ELSE x
\* (mutant) the default is not passed: dict.get(key)
GetWithoutDefault(x, d) == IF x = Absent THEN JNull ELSE x
\* dict.get(key, default)
GetDefault(x, d) == IF x = Absent THEN d ELSE x
\* Python truth value
Truthy(x) ==
    CASE x.k = "str" -> x.v # ""
      [] OTHER -> FALSE
\* x or d
OrElse(x, d) == IF Truthy(x) THEN x ELSE d
\* hash(x) succeeds (set membership test does not raise TypeError)
Hashable(x) == x.k # "arr"

ValidRoles == {"user", "assistant", "system"}
\* role not in {"user", "assistant", "system"}, for a hashable role
RoleInvalid(role) == ~(role.k = "str" /\ role.v \in ValidRoles)

\* sqlite3 parameter binding: str and None are supported types, a list is not
Bindable(x) == x.k \in {"str", "null"}
\* a value bound into a TEXT column is stored as text (column affinity)
TextAffinity(x) == x.v

\* ------------------------------------------------------------- the database
EmptyDb == [convs |-> <<>>, msgs |-> {}, seq_conv |-> 0, seq_msg |-> 0]

ConvIds(d) == DOMAIN d.convs
MsgsOf(d, c) == {m \in d.msgs : m.conversation_id = c}

RECURSIVE OrderById(_)
OrderById(S) ==
    IF S = {} THEN <<>>
    ELSE LET m == CHOOSE x \in S : \A y \in S : x.id <= y.id
         IN <<m>> \o OrderById(S \ {m})

\* (mutant) the rows in descending id order
list_messages_desc(d, c) ==
    LET rows == OrderById(MsgsOf(d, c))
    IN [k \in 1..Len(rows) |-> rows[Len(rows) + 1 - k]]

\* SELECT ... FROM messages WHERE conversation_id = ? ORDER BY id ASC
list_messages(d, c) == OrderById(MsgsOf(d, c))

\* SELECT ... FROM conversations WHERE id = ?  (NoRow when there is none)
NoRow == [id |-> 0, title |-> "", system_prompt |-> "", created_at |-> 0, updated_at |-> 0]
get_conversation(d, c) == IF c \in ConvIds(d) THEN d.convs[c] ELSE NoRow

\* (mutant) updated_at left at the column's empty value
ConvInsertNoUpdatedAt(d, title, prompt, ts) ==
    LET id == d.seq_conv + 1
        row == [id |-> id, title |-> TextAffinity(title),
                system_prompt |-> TextAffinity(prompt),
                created_at |-> ts, updated_at |-> 0]
    IN [d EXCEPT !.convs = (id :> row) @@ d.convs, !.seq_conv = id]

\* INSERT INTO conversations (title, system_prompt, created_at, updated_at):
\* AUTOINCREMENT id, both timestamps the one value read before
ConvInsert(d, title, prompt, ts) ==
    LET id == d.seq_conv + 1
        row == [id |-> id, title |-> TextAffinity(title),
                system_prompt |-> TextAffinity(prompt),
                created_at |-> ts, updated_at |-> ts]
    IN [d EXCEPT !.convs = (id :> row) @@ d.convs, !.seq_conv = id]

\* (mutant) PRAGMA foreign_keys left off: the reference is not enforced
MsgInsertOkNoForeignKey(d, c, role, content) ==
    /\ Bindable(role) /\ Bindable(content)
    /\ role # JNull /\ content # JNull
    /\ TextAffinity(role) \in ValidRoles

\* INSERT INTO messages: bindable values, NOT NULL, CHECK (role IN ...),
\* FOREIGN KEY (conversation_id) REFERENCES conversations(id)
MsgInsertOk(d, c, role, content) ==
    /\ Bindable(role) /\ Bindable(content)
    /\ role # JNull /\ content # JNull
    /\ TextAffinity(role) \in ValidRoles
    /\ c \in ConvIds(d)
\* (mutant) no AUTOINCREMENT: the new rowid is one more than the largest
\* rowid in the table
MsgInsertRowid(d, c, role, content, ts) ==
    LET id == IF d.msgs = {} THEN 1
              ELSE (CHOOSE x \in {m.id : m \in d.msgs} : \A m \in d.msgs : m.id <= x) + 1
        row == [id |-> id, conversation_id |-> c, role |-> TextAffinity(role),
                content |-> TextAffinity(content), created_at |-> ts]
    IN [d EXCEPT !.msgs = d.msgs \cup {row}, !.seq_msg = id]
\* the INSERT: the id is one more than the sqlite_sequence entry of the table
MsgInsert(d, c, role, content, ts) ==
    LET id == d.seq_msg + 1
        row == [id |-> id, conversation_id |-> c, role |-> TextAffinity(role),
                content |-> TextAffinity(content), created_at |-> ts]
    IN [d EXCEPT !.msgs = d.msgs \cup {row}, !.seq_msg = id]

\* UPDATE conversations SET updated_at = ? WHERE id = ?
TouchConv(d, c, ts) ==
    IF c \in ConvIds(d) THEN [d EXCEPT !.convs[c].updated_at = ts] ELSE d

\* (mutant) the DELETE without its WHERE clause
MsgDeleteAll(d, c) == [d EXCEPT !.msgs = {}]

\* DELETE FROM messages WHERE conversation_id = ?
MsgDelete(d, c) == [d EXCEPT !.msgs = d.msgs \ MsgsOf(d, c)]

\* (mutant) foreign keys off: the conversation row alone is deleted
ConvDeleteNoCascade(d, c) ==
    [d EXCEPT !.convs = [i \in ConvIds(d) \ {c} |-> d.convs[i]]]

\* DELETE FROM conversations WHERE id = ?  with PRAGMA foreign_keys = ON:
\* the messages that reference the row are deleted with it (ON DELETE CASCADE)
ConvDelete(d, c) ==
    [d EXCEPT !.convs = [i \in ConvIds(d) \ {c} |-> d.convs[i]],
              !.msgs = d.msgs \ MsgsOf(d, c)]

\* (mutant) every column is assigned, None as the empty text
ConvUpdateAllColumns(d, c, title, prompt, ts) ==
    IF c \notin ConvIds(d) THEN d
    ELSE [d EXCEPT !.convs[c] = [@ EXCEPT !.title = TextAffinity(title),
                                          !.system_prompt = TextAffinity(prompt),
                                          !.updated_at = ts]]

\* UPDATE conversations SET [title = ?,] [system_prompt = ?,] updated_at = ?
\* WHERE id = ?   (title, prompt: None when the field is left alone)
ConvUpdate(d, c, title, prompt, ts) ==
    IF c \notin ConvIds(d) THEN d
    ELSE LET old == d.convs[c]
             new == [old EXCEPT
                       !.title = IF title # JNull THEN TextAffinity(title) ELSE @,
                       !.system_prompt = IF prompt # JNull THEN TextAffinity(prompt) ELSE @,
                       !.updated_at = ts]
         IN [d EXCEPT !.convs[c] = new]

\* ------------------------------------------------------------------ requests
\* The id segment of /api/conversations/{id}[/messages]: int() parses it or not.
IdSegs == [int : {TRUE}, val : {1, 2}] \cup {[int |-> FALSE, val |-> 0]}

\* (title, systemPrompt) of a POST /api/conversations body
CreateBodies == {<<Absent, Absent>>, <<JStr(""), JStr("P")>>, <<JStr("T"), Absent>>}
\* title and systemPrompt of a PUT /api/conversations/{id} body
TitleVals == {Absent, JStr(""), JStr("U")}
PromptVals == {Absent, JStr("P")}
\* (role, content) of a POST body
PostBodies == {<<JStr("user"), JStr("yo")>>, <<JStr("assistant"), Absent>>,
               <<JStr("user"), JNull>>, <<JStr("bogus"), JStr("yo")>>,
               <<JArr, JStr("yo")>>, <<Absent, JStr("yo")>>}

\* One element of a "messages" array: a JSON object with its "role" and
\* "content", or a value that is no object (a number, a string, null).
Elem(r, c) == [obj |-> TRUE, role |-> r, content |-> c]
NonObject == [obj |-> FALSE, role |-> Absent, content |-> Absent]
Plain == Elem(JStr("user"), JStr("hi"))
Elems == {Plain, Elem(JStr("assistant"), Absent),
          Elem(JStr("bogus"), JStr("hi")), Elem(JStr("user"), JNull), NonObject}
\* the lists of a request: up to MaxLen elements, at most one of them not Plain
Lists == UNION {{l \in [1..n -> Elems] : Cardinality({k \in 1..n : l[k] # Plain}) <= 1} :
                  n \in 0..MaxLen}
\* the "messages" field: a list, or something that is not a list
NotAList == [k |-> "str", items |-> <<>>]
AList(l) == [k |-> "list", items |-> l]
MessagesVals == {AList(l) : l \in Lists} \cup {NotAList}

\* A request body: sent (Content-Length is not 0) or not, and the fields of
\* the JSON object it holds.  NoBody: nothing was sent; EmptyObject: {}
NoBody == [sent |-> FALSE, title |-> Absent, systemPrompt |-> Absent, role |-> Absent,
           content |-> Absent, messages |-> Absent]
EmptyObject == [NoBody EXCEPT !.sent = TRUE]
\* _read_json: raw = rfile.read(content_length) if content_length else b"{}"
read_json(b) == IF b.sent THEN b ELSE EmptyObject
NoId == [int |-> FALSE, val |-> 0]
Request(m, r, i, b) == [method |-> m, route |-> r, idseg |-> i, body |-> b]

Requests ==
    {Request("GET", "convs", NoId, NoBody), Request("GET", "other", NoId, NoBody),
     Request("POST", "other", NoId, NoBody), Request("PUT", "other", NoId, NoBody)}
    \cup {Request("GET", "msgs", i, NoBody) : i \in IdSegs}
    \cup {Request("POST", "convs", NoId, [EmptyObject EXCEPT !.title = tp[1], !.systemPrompt = tp[2]]) :
            tp \in CreateBodies}
    \cup {Request("POST", "msgs", i, [EmptyObject EXCEPT !.role = rc[1], !.content = rc[2]]) :
            i \in IdSegs, rc \in PostBodies}
    \cup {Request("PUT", "conv", i, [EmptyObject EXCEPT !.title = ti, !.systemPrompt = p]) :
            i \in IdSegs, ti \in TitleVals, p \in PromptVals}
    \cup {Request("PUT", "msgs", i, [EmptyObject EXCEPT !.messages = ms]) :
            i \in IdSegs, ms \in MessagesVals \cup {Absent}}
    \cup {Request("PUT", "msgs", i, NoBody) : i \in IdSegs}

\* ----------------------------------------------------------------- responses
\* status 0: the handler raised and the connection was closed with no response.
Response(st, js, err, data) == [status |-> st, json |-> js, error |-> err, data |-> data]
NoResponse == Response(0, FALSE, "", <<>>)
\* _json_response(payload, status)
JsonResponse(st, err, data) == Response(st, TRUE, err, data)
\* send_error(code, message): an HTML error page
SendError(st) == Response(st, FALSE, "", <<>>)

NoLocals == [cid |-> 0, ts |-> 0, i |-> 0, role |-> JNull, content |-> JNull,
             cleaned |-> <<>>, expect |-> <<>>, api_key |-> FALSE, upstream |-> <<>>]

\* -------------------------------------------------------------------- state
VARIABLES
    db,         \* the committed database
    work,       \* the database as the open write transaction sees it
    lock,       \* the thread holding the write lock, or "free"
    clock,      \* the last clock reading
    pc,         \* per thread: where its handler stands
    req,        \* per thread: the request being served
    loc,        \* per thread: the handler's local variables
    resp,       \* per thread: the response written
    shadow      \* per conversation: the (role, content) list the completed
                \* storage calls define, applied one call after the other

vars == <<db, work, lock, clock, pc, req, loc, resp, shadow>>

\* the (role, content) pairs of message rows, in their order
Pairs(rows) == [k \in 1..Len(rows) |-> [role |-> rows[k].role, content |-> rows[k].content]]

\* now_iso(): the wall clock, which does not run backwards
NowValues == {clock} \cup (IF clock < MaxClock THEN {clock + 1} ELSE {})

\* chatbot.db outlives the process (CREATE TABLE IF NOT EXISTS): the server
\* starts on a new file, or on the file an earlier run left, here one
\* conversation that was created and then given one message
StoredDb ==
    [convs |-> (1 :> [id |-> 1, title |-> "T", system_prompt |-> "",
                      created_at |-> 1, updated_at |-> 1]),
     msgs |-> {[id |-> 1, conversation_id |-> 1, role |-> "user",
                content |-> "hi", created_at |-> 1]},
     seq_conv |-> 1, seq_msg |-> 1]

\* ... or two conversations with one message each
StoredDb2 ==
    [convs |-> (1 :> [id |-> 1, title |-> "T", system_prompt |-> "",
                      created_at |-> 1, updated_at |-> 1])
               @@ (2 :> [id |-> 2, title |-> "S", system_prompt |-> "Q",
                         created_at |-> 1, updated_at |-> 1]),
     msgs |-> {[id |-> 1, conversation_id |-> 1, role |-> "user",
                content |-> "hi", created_at |-> 1],
               [id |-> 2, conversation_id |-> 2, role |-> "assistant",
                content |-> "ok", created_at |-> 1]},
     seq_conv |-> 2, seq_msg |-> 2]

Init ==
    /\ db \in {EmptyDb, StoredDb}
    /\ work = db
    /\ lock = "free"
    /\ clock = 1
    /\ pc = [t \in Threads |-> "idle"]
    /\ req = [t \in Threads |-> Request("GET", "other", NoId, NoBody)]
    /\ loc = [t \in Threads |-> NoLocals]
    /\ resp = [t \in Threads |-> NoResponse]
    /\ shadow = [c \in ConvIds(db) |-> Pairs(list_messages(db, c))]

\* the handler of thread t ends with response r
Finish(t, r) ==
    /\ pc' = [pc EXCEPT ![t] = "done"]
    /\ resp' = [resp EXCEPT ![t] = r]

Goto(t, label) ==
    /\ pc' = [pc EXCEPT ![t] = label]
    /\ UNCHANGED resp

\* a transaction commits d: it becomes the database every connection sees
Commit(d) == /\ db' = d /\ work' = d /\ lock' = "free"
\* (mutant) the statements that ran before the exception are committed
CommitPartial == /\ db' = work /\ work' = work /\ lock' = "free"
\* the `with` block raised: the open transaction is rolled back
Rollback == /\ work' = db /\ lock' = "free" /\ UNCHANGED db


\* the (role, content) pair a storage call was given, as the store keeps it
ArgPair(role, content) == [role |-> TextAffinity(role), content |-> TextAffinity(content)]
ArgPairs(cleaned) == [k \in 1..Len(cleaned) |-> ArgPair(cleaned[k].role, cleaned[k].content)]

\* --------------------------------------------------------- request dispatch
\* do_GET / do_POST / do_PUT: the route a method and path select
Route(r) ==
    CASE r.method = "GET" /\ r.route = "convs" -> "list_conversations"
      [] r.method = "GET" /\ r.route = "msgs" -> "do_GET_messages"
      [] r.method = "GET" -> "static"
      [] r.method = "POST" /\ r.route = "convs" -> "create_now"
      [] r.method = "POST" /\ r.route = "msgs" -> "do_POST_messages"
      [] r.method = "PUT" /\ r.route = "conv" -> "do_PUT_conversation"
      [] r.method = "PUT" /\ r.route = "msgs" -> "do_PUT_messages"
      [] OTHER -> "no_route"

PathScoped == {"do_GET_messages", "do_POST_messages", "do_PUT_conversation", "do_PUT_messages"}

\* connections are numbered in the order they are accepted
Before(u, t) == u = "w1" /\ t = "w2"

\* A request arrives on an idle worker; the handler runs up to its first
\* storage call: int(path.split("/")[3]) for the path-scoped routes,
\* _serve_static for the other GET paths (no such file: 404),
\* send_error(404) for POST and PUT paths that match no route.
Receive(t) ==
    /\ pc[t] = "idle"
    /\ \A u \in Threads : Before(u, t) => pc[u] # "idle"
    /\ \E r \in Requests :
        /\ req' = [req EXCEPT ![t] = r]
        /\ loc' = [loc EXCEPT ![t] = [NoLocals EXCEPT !.cid = r.idseg.val]]
        /\ IF Route(r) \in {"static", "no_route"}
             THEN Finish(t, SendError(404))
             ELSE IF Route(r) \in PathScoped /\ ~r.idseg.int
                    THEN Finish(t, JsonResponse(400, "invalid conversation id", <<>>))
                    ELSE Goto(t, Route(r))
    /\ UNCHANGED <<db, work, lock, clock, shadow>>

\* ------------------------------------------------------------ GET handlers
\* GET /api/conversations: list_conversations(), ORDER BY c.updated_at DESC
\* (rows with equal updated_at come in an order SQLite is free to pick)
ConvEntry(d, c) ==
    [id |-> c, title |-> d.convs[c].title, system_prompt |-> d.convs[c].system_prompt,
     created_at |-> d.convs[c].created_at, updated_at |-> d.convs[c].updated_at,
     message_count |-> Cardinality(MsgsOf(d, c))]
ListConversationsResults(d) ==
    {s \in [1..Cardinality(ConvIds(d)) -> {ConvEntry(d, c) : c \in ConvIds(d)}] :
        /\ \A i, j \in DOMAIN s : i < j => s[i].id # s[j].id
        /\ \A i, j \in DOMAIN s : i < j => s[i].updated_at >= s[j].updated_at}

list_conversations(t) ==
    /\ pc[t] = "list_conversations"
    /\ \E rows \in ListConversationsResults(db) :
        /\ Finish(t, JsonResponse(200, "", rows))
        /\ loc' = [loc EXCEPT ![t].expect = shadow]
    /\ UNCHANGED <<db, work, lock, clock, req, shadow>>

\* GET /api/conversations/{id}/messages: the existence check
do_GET_messages(t) ==
    /\ pc[t] = "do_GET_messages"
    /\ IF get_conversation(db, loc[t].cid) = NoRow
         THEN Finish(t, JsonResponse(404, "conversation not found", <<>>))
         ELSE Goto(t, "list_messages")
    /\ UNCHANGED <<db, work, lock, clock, req, loc, shadow>>

\* ... and list_messages(conversation_id)
do_GET_list_messages(t) ==
    /\ pc[t] = "list_messages"
    /\ Finish(t, JsonResponse(200, "", list_messages(db, loc[t].cid)))
    /\ loc' = [loc EXCEPT ![t].expect =
                 IF loc[t].cid \in DOMAIN shadow THEN shadow[loc[t].cid] ELSE <<>>]
    /\ UNCHANGED <<db, work, lock, clock, req, shadow>>

\* ------------------------------------------------ POST /api/conversations
\* title = body.get("title") or "New conversation"
CreateTitle(b) == OrElse(Get(b.title), JStr("New conversation"))
\* system_prompt = body.get("systemPrompt") or ""
CreatePrompt(b) == OrElse(Get(b.systemPrompt), JStr(""))

\* create_conversation: timestamp = now_iso()
create_now(t) ==
    /\ pc[t] = "create_now"
    /\ \E ts \in NowValues :
        /\ clock' = ts
        /\ loc' = [loc EXCEPT ![t].ts = ts]
    /\ Goto(t, "create_insert")
    /\ UNCHANGED <<db, work, lock, req, shadow>>

\* create_conversation: the INSERT, committed; return cursor.lastrowid
create_conversation(t) ==
    /\ pc[t] = "create_insert"
    /\ lock = "free"
    /\ LET body == read_json(req[t].body)
           new == ConvInsert(db, CreateTitle(body), CreatePrompt(body), loc[t].ts)
       IN /\ Commit(new)
          /\ loc' = [loc EXCEPT ![t].cid = new.seq_conv]
          /\ shadow' = (new.seq_conv :> <<>>) @@ shadow
    /\ Goto(t, "create_get")
    /\ UNCHANGED <<clock, req>>

\* 201 {"conversation": get_conversation(conversation_id)}
do_POST_create_response(t) ==
    /\ pc[t] = "create_get"
    /\ Finish(t, JsonResponse(201, "", get_conversation(db, loc[t].cid)))
    /\ UNCHANGED <<db, work, lock, clock, req, loc, shadow>>

\* ---------------------------------- POST /api/conversations/{id}/messages
\* (mutant) the role test runs before the existence check
do_POST_messages_role_first(t) ==
    /\ pc[t] = "do_POST_messages"
    /\ LET body == read_json(req[t].body)
           role == Get(body.role)
           content == GetDefault(body.content, JStr(""))
       IN IF ~Hashable(role)
            THEN /\ Finish(t, NoResponse)
                 /\ UNCHANGED loc
            ELSE IF RoleInvalid(role)
                   THEN /\ Finish(t, JsonResponse(400, "invalid role", <<>>))
                        /\ UNCHANGED loc
                   ELSE IF get_conversation(db, loc[t].cid) = NoRow
                          THEN /\ Finish(t, JsonResponse(404, "conversation not found", <<>>))
                               /\ UNCHANGED loc
                          ELSE /\ Goto(t, "append_now")
                               /\ loc' = [loc EXCEPT ![t].role = role, ![t].content = content]
    /\ UNCHANGED <<db, work, lock, clock, req, shadow>>

\* the existence check, then role = body.get("role"),
\* content = body.get("content", ""), and the role test
do_POST_messages(t) ==
    /\ pc[t] = "do_POST_messages"
    /\ LET body == read_json(req[t].body)
           role == Get(body.role)
           content == GetDefault(body.content, JStr(""))
       IN IF get_conversation(db, loc[t].cid) = NoRow
            THEN /\ Finish(t, JsonResponse(404, "conversation not found", <<>>))
                 /\ UNCHANGED loc
            ELSE IF ~Hashable(role)
                   THEN /\ Finish(t, NoResponse)      \* TypeError: unhashable type
                        /\ UNCHANGED loc
                   ELSE IF RoleInvalid(role)
                          THEN /\ Finish(t, JsonResponse(400, "invalid role", <<>>))
                               /\ UNCHANGED loc
                          ELSE /\ Goto(t, "append_now")
                               /\ loc' = [loc EXCEPT ![t].role = role, ![t].content = content]
    /\ UNCHANGED <<db, work, lock, clock, req, shadow>>

\* append_message: now_iso() for the row, read before the INSERT runs
append_now(t) ==
    /\ pc[t] = "append_now"
    /\ \E ts \in NowValues :
        /\ clock' = ts
        /\ loc' = [loc EXCEPT ![t].ts = ts]
    /\ Goto(t, "append_insert")
    /\ UNCHANGED <<db, work, lock, req, shadow>>

\* append_message: the INSERT opens the transaction and takes the write lock;
\* a constraint failure raises and the transaction is rolled back
append_insert(t) ==
    /\ pc[t] = "append_insert"
    /\ lock = "free"
    /\ IF MsgInsertOk(db, loc[t].cid, loc[t].role, loc[t].content)
         THEN /\ work' = MsgInsert(db, loc[t].cid, loc[t].role, loc[t].content, loc[t].ts)
              /\ lock' = t
              /\ Goto(t, "append_update")
         ELSE /\ Finish(t, NoResponse)                \* sqlite3.IntegrityError
              /\ UNCHANGED <<work, lock>>
    /\ UNCHANGED <<db, clock, req, loc, shadow>>

\* append_message: UPDATE conversations SET updated_at = now_iso(), the commit,
\* and 201 {"ok": true}
append_update(t) ==
    /\ pc[t] = "append_update"
    /\ lock = t
    /\ \E ts \in NowValues :
        /\ clock' = ts
        /\ Commit(TouchConv(work, loc[t].cid, ts))
    /\ shadow' = [shadow EXCEPT ![loc[t].cid] = Append(@, ArgPair(loc[t].role, loc[t].content))]
    /\ Finish(t, JsonResponse(201, "", <<>>))
    /\ UNCHANGED <<req, loc>>

\* ------------------------------------------- PUT /api/conversations/{id}
\* the existence check; then update_conversation builds its parameters:
\* title and system_prompt when not None, and now_iso()
do_PUT_conversation(t) ==
    /\ pc[t] = "do_PUT_conversation"
    /\ IF get_conversation(db, loc[t].cid) = NoRow
         THEN Finish(t, JsonResponse(404, "conversation not found", <<>>))
         ELSE Goto(t, "update_now")
    /\ UNCHANGED <<db, work, lock, clock, req, loc, shadow>>

update_now(t) ==
    /\ pc[t] = "update_now"
    /\ \E ts \in NowValues :
        /\ clock' = ts
        /\ loc' = [loc EXCEPT ![t].ts = ts]
    /\ Goto(t, "update_exec")
    /\ UNCHANGED <<db, work, lock, req, shadow>>

\* update_conversation: the UPDATE, committed
update_conversation(t) ==
    /\ pc[t] = "update_exec"
    /\ lock = "free"
    /\ LET body == read_json(req[t].body)
       IN Commit(ConvUpdate(db, loc[t].cid, Get(body.title),
                            Get(body.systemPrompt), loc[t].ts))
    /\ Goto(t, "update_get")
    /\ UNCHANGED <<clock, req, loc, shadow>>

\* 200 {"conversation": get_conversation(conversation_id)}
do_PUT_conversation_response(t) ==
    /\ pc[t] = "update_get"
    /\ Finish(t, JsonResponse(200, "", get_conversation(db, loc[t].cid)))
    /\ UNCHANGED <<db, work, lock, clock, req, loc, shadow>>

\* ---------------------------------- PUT /api/conversations/{id}/messages
\* the loop over body["messages"] that builds `cleaned`: the first element
\* whose role is not one of the three ends it with 400; message.get raises on
\* an element that is no object, the set test on a role that is a list
RECURSIVE CleanLoop(_, _, _)
CleanLoop(items, k, cleaned) ==
    IF k > Len(items) THEN [outcome |-> "ok", cleaned |-> cleaned]
    ELSE LET role == Get(items[k].role)
             content == GetDefault(items[k].content, JStr(""))
         IN IF ~items[k].obj \/ ~Hashable(role)     \* AttributeError, TypeError
              THEN [outcome |-> "raise", cleaned |-> cleaned]
            ELSE IF RoleInvalid(role) THEN [outcome |-> "invalid role", cleaned |-> cleaned]
            ELSE CleanLoop(items, k + 1, Append(cleaned, Elem(role, content)))

\* the existence check, messages = body.get("messages", []), the
\* isinstance(messages, list) test and the loop
do_PUT_messages(t) ==
    /\ pc[t] = "do_PUT_messages"
    /\ LET body == read_json(req[t].body)
           messages == GetDefault(body.messages, AList(<<>>))
           res == CleanLoop(messages.items, 1, <<>>)
       IN IF get_conversation(db, loc[t].cid) = NoRow
            THEN /\ Finish(t, JsonResponse(404, "conversation not found", <<>>))
                 /\ UNCHANGED loc
            ELSE IF messages.k # "list"
                   THEN /\ Finish(t, JsonResponse(400, "messages must be an array", <<>>))
                        /\ UNCHANGED loc
                   ELSE IF res.outcome = "raise"
                          THEN /\ Finish(t, NoResponse)
                               /\ UNCHANGED loc
                          ELSE IF res.outcome = "invalid role"
                                 THEN /\ Finish(t, JsonResponse(400, "invalid role in messages", <<>>))
                                      /\ UNCHANGED loc
                                 ELSE /\ Goto(t, "replace_delete")
                                      /\ loc' = [loc EXCEPT ![t].cleaned = res.cleaned]
    /\ UNCHANGED <<db, work, lock, clock, req, shadow>>

\* (mutant) autocommit: the DELETE is committed on its own
replace_delete_autocommit(t) ==
    /\ pc[t] = "replace_delete"
    /\ lock = "free"
    /\ db' = MsgDelete(db, loc[t].cid)
    /\ work' = MsgDelete(db, loc[t].cid)
    /\ lock' = t
    /\ loc' = [loc EXCEPT ![t].i = 1]
    /\ Goto(t, "replace_insert")
    /\ UNCHANGED <<clock, req, shadow>>

\* replace_messages: the DELETE opens the transaction and takes the write lock
replace_delete(t) ==
    /\ pc[t] = "replace_delete"
    /\ lock = "free"
    /\ work' = MsgDelete(db, loc[t].cid)
    /\ lock' = t
    /\ loc' = [loc EXCEPT ![t].i = 1]
    /\ Goto(t, "replace_insert")
    /\ UNCHANGED <<db, clock, req, shadow>>

\* replace_messages: one turn of the loop, INSERT with now_iso(); a constraint
\* failure raises out of the `with` block and the transaction is rolled back
replace_insert(t) ==
    /\ pc[t] = "replace_insert"
    /\ lock = t
    /\ loc[t].i <= Len(loc[t].cleaned)
    /\ LET m == loc[t].cleaned[loc[t].i]
       IN \E ts \in NowValues :
            /\ clock' = ts
            /\ IF MsgInsertOk(work, loc[t].cid, m.role, m.content)
                 THEN /\ work' = MsgInsert(work, loc[t].cid, m.role, m.content, ts)
                      /\ loc' = [loc EXCEPT ![t].i = @ + 1]
                      /\ Goto(t, "replace_insert")
                      /\ UNCHANGED <<db, lock>>
                 ELSE /\ Rollback
                      /\ Finish(t, NoResponse)        \* sqlite3.IntegrityError
                      /\ UNCHANGED loc
    /\ UNCHANGED <<req, shadow>>

\* replace_messages: after the loop, UPDATE conversations SET updated_at =
\* now_iso(), the commit, and 200 {"ok": true}
replace_update(t) ==
    /\ pc[t] = "replace_insert"
    /\ lock = t
    /\ loc[t].i > Len(loc[t].cleaned)
    /\ \E ts \in NowValues :
        /\ clock' = ts
        /\ Commit(TouchConv(work, loc[t].cid, ts))
    /\ shadow' = IF loc[t].cid \in DOMAIN shadow
                   THEN [shadow EXCEPT ![loc[t].cid] = ArgPairs(loc[t].cleaned)]
                   ELSE shadow
    /\ Finish(t, JsonResponse(200, "", <<>>))
    /\ UNCHANGED <<req, loc>>

\* ----------------------------------------------------- completion gateway
\* str(x) as an f-string formats it
Format(x) ==
    CASE x.k = "str" -> x.v
      [] x.k = "null" -> "None"
      [] x.k = "arr" -> "[]"
      [] OTHER -> ""

\* llm_chat without LLM_API_KEY: scan reversed(messages) for the last message
\* whose role is "user"; message.get raises on an element that is no object
RECURSIVE LastUser(_, _)
LastUser(messages, k) ==
    IF k = 0 THEN [raised |-> FALSE, last_user |-> ""]
    ELSE IF ~messages[k].obj THEN [raised |-> TRUE, last_user |-> ""]
    ELSE IF Get(messages[k].role) = JStr("user")
           THEN [raised |-> FALSE,
                 last_user |-> Format(GetDefault(messages[k].content, JStr("")))]
           ELSE LastUser(messages, k - 1)

\* What the POST to the completion endpoint comes to.
\*   http_error   urlopen raises HTTPError (a non-2xx status)
\*   url_error    urlopen raises URLError (DNS, refused, connect timeout)
\*   timeout      the socket times out while the response is awaited or read
\*   bad_json     2xx, and the body is not JSON
\*   json         2xx, and the body decodes to `data`
\* data: isobj (a JSON object or not); choices: "absent", "null", "empty",
\* "list"; first: the first choice is an object; message: "absent", "null",
\* "obj"; content: the message's "content"
Upstream(kind, isobj, choices, first, message, content) ==
    [kind |-> kind, isobj |-> isobj, choices |-> choices, first |-> first,
     message |-> message, content |-> content]
NoData == Upstream("none", FALSE, "absent", FALSE, "absent", Absent)
ReplyContents == {Absent, JNull, JStr(""), JStr("reply")}
Upstreams ==
    {[NoData EXCEPT !.kind = k] : k \in {"http_error", "url_error", "timeout", "bad_json"}}
    \cup {Upstream("json", FALSE, "absent", FALSE, "absent", Absent)}
    \cup {Upstream("json", TRUE, c, FALSE, "absent", Absent) : c \in {"absent", "null", "empty", "list"}}
    \cup {Upstream("json", TRUE, "list", TRUE, m, Absent) : m \in {"absent", "null"}}
    \cup {Upstream("json", TRUE, "list", TRUE, "obj", c) : c \in ReplyContents}

Returned(v) == [outcome |-> "return", value |-> v]
RuntimeError(detail) == [outcome |-> "RuntimeError", value |-> detail]
OtherException == [outcome |-> "exception", value |-> ""]

\* (mutant) the `if not content` test is missing
llm_chat_no_content_test(messages, api_key, up) ==
    IF ~api_key
      THEN LET scan == LastUser(messages, Len(messages))
           IN IF scan.raised THEN OtherException
              ELSE Returned("[mock backend reply] " \o scan.last_user)
    ELSE IF up.kind = "http_error" THEN RuntimeError("LLM request failed")
    ELSE IF up.kind = "url_error" THEN RuntimeError("LLM connection failed")
    ELSE IF up.kind \in {"timeout", "bad_json"} THEN OtherException
    ELSE IF ~up.isobj THEN OtherException
    ELSE IF up.choices # "list"
           THEN RuntimeError("LLM response did not include choices")
    ELSE IF ~up.first THEN OtherException
    ELSE IF up.message = "null" THEN OtherException
    ELSE Returned(IF up.message = "absent" THEN "" ELSE Get(up.content).v)

\* llm_chat(messages) with LLM_API_KEY set or not, the endpoint answering up
llm_chat(messages, api_key, up) ==
    IF ~api_key
      THEN LET scan == LastUser(messages, Len(messages))
           IN IF scan.raised THEN OtherException        \* AttributeError
              ELSE Returned("[mock backend reply] " \o scan.last_user)
    ELSE IF up.kind = "http_error" THEN RuntimeError("LLM request failed")
    ELSE IF up.kind = "url_error" THEN RuntimeError("LLM connection failed")
    ELSE IF up.kind = "timeout" THEN OtherException     \* TimeoutError
    ELSE IF up.kind = "bad_json" THEN OtherException    \* json.JSONDecodeError
    ELSE IF ~up.isobj THEN OtherException               \* data.get: AttributeError
    ELSE IF up.choices # "list"                         \* data.get("choices") or []
           THEN RuntimeError("LLM response did not include choices")
    ELSE IF ~up.first THEN OtherException               \* choices[0].get
    ELSE IF up.message = "null" THEN OtherException     \* None.get
    ELSE LET content == IF up.message = "absent" THEN JNull ELSE Get(up.content)
         IN IF ~Truthy(content)
              THEN RuntimeError("LLM response did not include assistant content")
              ELSE Returned(content.v)

ChatElems == {Elem(JStr("user"), JStr("hello")), Elem(JStr("user"), Absent),
              Elem(JStr("assistant"), JStr("ok")), NonObject}
ChatLists == UNION {[1..n -> ChatElems] : n \in 0..MaxLen}
ChatRequests ==
    {Request("POST", "chat", NoId, [EmptyObject EXCEPT !.messages = ms]) :
        ms \in {AList(l) : l \in ChatLists} \cup {NotAList}}

\* POST /api/chat arrives: messages = body.get("messages", []) and the
\* isinstance(messages, list) test
ReceiveChat(t) ==
    /\ pc[t] = "idle"
    /\ \A u \in Threads : Before(u, t) => pc[u] # "idle"
    /\ \E r \in ChatRequests :
        /\ req' = [req EXCEPT ![t] = r]
        /\ IF GetDefault(read_json(r.body).messages, AList(<<>>)).k # "list"
             THEN Finish(t, JsonResponse(400, "messages must be an array", <<>>))
             ELSE Goto(t, "llm_chat")
    /\ UNCHANGED <<db, work, lock, clock, loc, shadow>>

\* reply = llm_chat(messages); except RuntimeError: 500 {"error": str(err)};
\* else 200 {"reply": reply}.  Any other exception leaves do_POST.
do_POST_chat(t) ==
    /\ pc[t] = "llm_chat"
    /\ \E key \in BOOLEAN :
       \E up \in IF key THEN Upstreams ELSE {NoData} :
          LET messages == GetDefault(read_json(req[t].body).messages, AList(<<>>))
              res == llm_chat(messages.items, key, up)
          IN /\ loc' = [loc EXCEPT ![t].api_key = key, ![t].upstream = up]
             /\ Finish(t, CASE res.outcome = "return" -> JsonResponse(200, "", res.value)
                            [] res.outcome = "RuntimeError" -> JsonResponse(500, res.value, <<>>)
                            [] OTHER -> NoResponse)
    /\ UNCHANGED <<db, work, lock, clock, req, shadow>>

\* ------------------------------------------------- storage-level deletion
\* DELETE FROM conversations WHERE id = c on a get_db() connection
delete_conversation(c) ==
    /\ lock = "free"
    /\ c \in ConvIds(db)
    /\ Commit(ConvDelete(db, c))
    /\ shadow' = [i \in DOMAIN shadow \ {c} |-> shadow[i]]
    /\ UNCHANGED <<clock, pc, req, loc, resp>>

\* ------------------------------------------------------------ specification
Step(t) ==
    \/ Receive(t)
    \/ list_conversations(t)
    \/ do_GET_messages(t)
    \/ do_GET_list_messages(t)
    \/ create_now(t)
    \/ create_conversation(t)
    \/ do_POST_create_response(t)
    \/ do_POST_messages(t)
    \/ append_now(t)
    \/ append_insert(t)
    \/ append_update(t)
    \/ do_PUT_conversation(t)
    \/ update_now(t)
    \/ update_conversation(t)
    \/ do_PUT_conversation_response(t)
    \/ do_PUT_messages(t)
    \/ replace_delete(t)
    \/ replace_insert(t)
    \/ replace_update(t)

Next ==
    \/ \E t \in Threads : Step(t)
    \/ \E c \in ConvIds(db) : delete_conversation(c)

Spec == Init /\ [][Next]_vars

\* The server started on the file with two conversations.
InitTwo ==
    /\ db = StoredDb2
    /\ work = db
    /\ lock = "free"
    /\ clock = 1
    /\ pc = [t \in Threads |-> "idle"]
    /\ req = [t \in Threads |-> Request("GET", "other", NoId, NoBody)]
    /\ loc = [t \in Threads |-> NoLocals]
    /\ resp = [t \in Threads |-> NoResponse]
    /\ shadow = [c \in ConvIds(db) |-> Pairs(list_messages(db, c))]
SpecTwo == InitTwo /\ [][Next]_vars

\* The completion gateway alone: chat requests on a new database.
InitChat == Init /\ db = EmptyDb
NextChat == \E t \in Threads : ReceiveChat(t) \/ do_POST_chat(t)
SpecChat == InitChat /\ [][NextChat]_vars

\* ------------------------------------------------------------------- claims
IsReq(t, m, r) == req[t].method = m /\ req[t].route = r
Answered(t, st) == pc[t] = "done" /\ resp[t].status = st

\* C1: the stored updated_at of a conversation never decreases, whatever the
\* interleaving of appendMessage, replaceMessages and updateConversation calls.
C1_UpdatedAtNeverDecreases ==
    [][\A c \in ConvIds(db) \cap ConvIds(db') :
         db'.convs[c].updated_at >= db.convs[c].updated_at]_vars

\* C2: in every state the messages listMessages(c) returns are the (role,
\* content) pairs the completed storage calls define, in order (the list of
\* the last replaceMessages followed by the later appends), with strictly
\* ascending identifiers; and a GET that reads after a write returned, with
\* no other request in between, shows that write.
C2_ListReflectsWrites ==
    /\ DOMAIN shadow = ConvIds(db)
    /\ \A c \in ConvIds(db) :
         LET rows == list_messages(db, c)
         IN /\ Pairs(rows) = shadow[c]
            /\ \A i, j \in 1..Len(rows) : i < j => rows[i].id < rows[j].id
    /\ \A t, u \in Threads :
         (/\ pc[t] = "list_messages" /\ pc[u] = "done"
          /\ loc[u].cid = loc[t].cid /\ loc[t].cid \in ConvIds(db)
          /\ \A w \in Threads \ {t, u} : pc[w] = "idle")
         => LET got == Pairs(list_messages(db, loc[t].cid))
            IN /\ (IsReq(u, "PUT", "msgs") /\ resp[u].status = 200)
                    => got = ArgPairs(loc[u].cleaned)
               /\ (IsReq(u, "POST", "msgs") /\ resp[u].status = 201)
                    => /\ got # <<>>
                       /\ got[Len(got)] = ArgPair(loc[u].role, loc[u].content)

\* C2 witness: a two-element replaceMessages and a later appendMessage both
\* committed on one conversation, which now lists three messages.
C2_Witness ==
    \E t, u \in Threads :
        /\ Answered(t, 200) /\ IsReq(t, "PUT", "msgs") /\ Len(loc[t].cleaned) = 2
        /\ loc[t].cleaned[1] # loc[t].cleaned[2]
        /\ Answered(u, 201) /\ IsReq(u, "POST", "msgs")
        /\ loc[u].cid = loc[t].cid
        /\ loc[t].cid \in ConvIds(db)
        /\ Len(list_messages(db, loc[t].cid)) = 3

\* the last two elements of a sequence
Tail2(q) == SubSeq(q, Len(q) - 1, Len(q))

\* C3: storage calls are atomic for concurrent callers.  A GET answers with
\* the list (or the message counts) the completed calls defined when it read,
\* also while a replaceMessages holds its transaction open; and two
\* committed writes on one conversation, with no other request served, leave
\* one of their serial orders.
C3_StorageCallsAtomic ==
    /\ \A t \in Threads :
         (Answered(t, 200) /\ IsReq(t, "GET", "msgs"))
         => Pairs(resp[t].data) = loc[t].expect
    /\ \A t \in Threads :
         (Answered(t, 200) /\ IsReq(t, "GET", "convs"))
         => /\ {resp[t].data[k].id : k \in DOMAIN resp[t].data} = DOMAIN loc[t].expect
            /\ \A k \in DOMAIN resp[t].data :
                 resp[t].data[k].message_count = Len(loc[t].expect[resp[t].data[k].id])
    /\ \A u \in Threads :
         (lock = u /\ loc[u].cid \in ConvIds(db))
         => Pairs(list_messages(db, loc[u].cid)) = shadow[loc[u].cid]
    /\ \A t, u \in Threads :
         (/\ t # u /\ pc[t] = "done" /\ pc[u] = "done"
          /\ loc[t].cid = loc[u].cid /\ loc[t].cid \in ConvIds(db)
          /\ \A w \in Threads \ {t, u} : pc[w] = "idle")
         => LET got == Pairs(list_messages(db, loc[t].cid))
                pt == ArgPair(loc[t].role, loc[t].content)
                pu == ArgPair(loc[u].role, loc[u].content)
                Lt == ArgPairs(loc[t].cleaned)
                Lu == ArgPairs(loc[u].cleaned)
            IN /\ (/\ IsReq(t, "POST", "msgs") /\ resp[t].status = 201
                   /\ IsReq(u, "POST", "msgs") /\ resp[u].status = 201)
                   => /\ Len(got) >= 2
                      /\ Tail2(got) \in {<<pt, pu>>, <<pu, pt>>}
               /\ (/\ IsReq(t, "POST", "msgs") /\ resp[t].status = 201
                   /\ IsReq(u, "PUT", "msgs") /\ resp[u].status = 200)
                   => got \in {Lu, Append(Lu, pt)}
               /\ (/\ IsReq(t, "PUT", "msgs") /\ resp[t].status = 200
                   /\ IsReq(u, "PUT", "msgs") /\ resp[u].status = 200)
                   => got \in {Lt, Lu}

\* C3 witness: a listMessages is about to read a conversation whose
\* replaceMessages has deleted the old rows and inserted one new row, not yet
\* committed.
C3_Witness ==
    \E t, u \in Threads :
        /\ pc[t] = "list_messages" /\ pc[u] = "replace_insert"
        /\ lock = u /\ loc[u].i = 2 /\ Len(loc[u].cleaned) = 2
        /\ loc[t].cid = loc[u].cid
        /\ MsgsOf(db, loc[u].cid) # {}
        /\ MsgsOf(work, loc[u].cid) # MsgsOf(db, loc[u].cid)

\* C4: every stored message has one of the three roles and belongs to an
\* existing conversation; no message row outlives its conversation.
C4_NoOrphanMessages ==
    \A m \in db.msgs :
        /\ m.role \in ValidRoles
        /\ m.conversation_id \in ConvIds(db)

\* C4 witness: a conversation that had a message was deleted, and an append
\* to it that had passed the existence check has failed.
C4_Witness ==
    /\ db.seq_msg >= 1
    /\ \E c \in 1..db.seq_conv : c \notin ConvIds(db)
    /\ \E t \in Threads :
         /\ IsReq(t, "POST", "msgs") /\ Answered(t, 0)
         /\ loc[t].role # JNull /\ loc[t].content # JNull
         /\ loc[t].cid \notin ConvIds(db)

\* the role of a request lies outside {user, assistant, system}
OutsideRoles(x) == ~(x.k = "str" /\ x.v \in ValidRoles)
CarriesInvalidRole(r) ==
    \/ /\ r.method = "POST" /\ r.route = "msgs"
       /\ OutsideRoles(Get(r.body.role))
    \/ /\ r.method = "PUT" /\ r.route = "msgs"
       /\ r.body.messages.k = "list"
       /\ \E k \in DOMAIN r.body.messages.items :
            /\ r.body.messages.items[k].obj
            /\ OutsideRoles(Get(r.body.messages.items[k].role))

\* C5: a request on an existing conversation that carries an invalid role is
\* answered 400 and the handler changes nothing.
C5_InvalidRoleRejected ==
    [][\A t \in Threads :
         (/\ pc[t] \in {"do_POST_messages", "do_PUT_messages"}
          /\ pc'[t] # pc[t]
          /\ CarriesInvalidRole(req[t])
          /\ loc[t].cid \in ConvIds(db))
         => /\ pc'[t] = "done"
            /\ resp'[t].status = 400
            /\ db' = db]_vars

\* C6: every conversation has updated_at >= created_at, and a conversation
\* that createConversation has just inserted has updated_at = created_at.
C6_UpdatedNotBeforeCreated ==
    [][/\ \A c \in ConvIds(db) : db.convs[c].updated_at >= db.convs[c].created_at
       /\ \A c \in ConvIds(db') : db'.convs[c].updated_at >= db'.convs[c].created_at
       /\ \A c \in ConvIds(db') \ ConvIds(db) :
            db'.convs[c].updated_at = db'.convs[c].created_at]_vars

\* C6 witness: a conversation created in this run has since been updated at
\* a later clock reading.
C6_Witness ==
    \E c \in ConvIds(db) :
        /\ c = 2
        /\ db.convs[c].updated_at > db.convs[c].created_at
        /\ \E t \in Threads : IsReq(t, "POST", "convs") /\ Answered(t, 201)

\* C10: every stored conversation has a non-empty title.
C10_TitleNeverEmpty ==
    \A c \in ConvIds(db) : db.convs[c].title # ""

\* the chat request of thread t was answered in fallback / in live mode
ChatDone(t, key) ==
    /\ pc[t] = "done" /\ IsReq(t, "POST", "chat")
    /\ req[t].body.messages.k = "list"
    /\ loc[t].api_key = key

\* the content of the last object of the list whose role is "user"
RECURSIVE LastUserContent(_)
LastUserContent(l) ==
    IF l = <<>> THEN ""
    ELSE IF l[Len(l)].obj /\ l[Len(l)].role = JStr("user")
           THEN (IF l[Len(l)].content.k = "str" THEN l[Len(l)].content.v ELSE "")
           ELSE LastUserContent(SubSeq(l, 1, Len(l) - 1))

\* C7: with no credential, chat never raises on a JSON array, whatever its
\* elements: POST /api/chat answers 200 with a reply that carries the content
\* of the last user message.
C7_FallbackNeverRaises ==
    \A t \in Threads :
        ChatDone(t, FALSE)
        => /\ resp[t].status = 200
           /\ resp[t].data = "[mock backend reply] " \o LastUserContent(req[t].body.messages.items)

\* a live call that did not come to a usable reply
GatewayFailed(up) ==
    \/ up.kind \in {"http_error", "url_error", "timeout", "bad_json"}
    \/ up.kind = "json" /\ ~(/\ up.isobj /\ up.choices = "list" /\ up.first
                             /\ up.message = "obj" /\ Truthy(up.content))

\* C8: every gateway failure in live mode is answered 500 with a JSON body
\* whose error field carries the detail.
C8_GatewayFailuresAre500 ==
    \A t \in Threads :
        (ChatDone(t, TRUE) /\ GatewayFailed(loc[t].upstream))
        => /\ resp[t].status = 500
           /\ resp[t].json
           /\ resp[t].error # ""

\* the response has the agreed shape: an object, choices absent, null, empty
\* or a list whose first choice is an object, its message absent or an object
WellShaped(up) ==
    /\ up.kind = "json" /\ up.isobj
    /\ up.choices = "list" => (up.first /\ up.message \in {"absent", "obj"})

C11_UpdateChangesPresentFields ==
    [][\A t \in Threads :
         (pc[t] = "update_exec" /\ pc'[t] # pc[t])
         => LET c == loc[t].cid
                b == req[t].body
            IN /\ pc'[t] = "update_get"
               /\ db'.msgs = db.msgs
               /\ ConvIds(db') = ConvIds(db)
               /\ \A o \in ConvIds(db) \ {c} : db'.convs[o] = db.convs[o]
               /\ c \notin ConvIds(db) => db' = db
               /\ c \in ConvIds(db) =>
                    /\ db'.convs[c].title =
                         IF b.title = Absent THEN db.convs[c].title ELSE b.title.v
                    /\ db'.convs[c].system_prompt =
                         IF b.systemPrompt = Absent THEN db.convs[c].system_prompt
                         ELSE b.systemPrompt.v
                    /\ db'.convs[c].created_at = db.convs[c].created_at
                    /\ db'.convs[c].id = db.convs[c].id
                    /\ db'.convs[c].updated_at = loc[t].ts]_vars

\* C11 witness: one update with only a system prompt was answered with the
\* old title, the new prompt and a later updated_at; and one with no field
\* has run after its conversation was deleted.
C11_Witness ==
    \E t, u \in Threads :
        /\ IsReq(t, "PUT", "conv") /\ Answered(t, 200)
        /\ req[t].body.title = Absent /\ req[t].body.systemPrompt = JStr("P")
        /\ resp[t].data.title = "T" /\ resp[t].data.system_prompt = "P"
        /\ resp[t].data.updated_at > resp[t].data.created_at
        /\ IsReq(u, "PUT", "conv") /\ pc[u] = "update_get"
        /\ req[u].body.title = Absent /\ req[u].body.systemPrompt = Absent
        /\ loc[u].cid \notin ConvIds(db)

\* C12: replaceMessages(c, L) affects only the messages of c and c's
\* updated_at.  Every step of the call leaves the conversation rows other
\* than c and the messages of every other conversation as they were, keeps
\* conversation c with its title, system prompt and created_at, and the step
\* that commits leaves c with exactly the messages of L (none when L is
\* empty).
C12_ReplaceAffectsOnlyItsConversation ==
    [][\A t \in Threads :
         (pc[t] \in {"replace_delete", "replace_insert"} /\ <<pc[t], loc[t]>>' # <<pc[t], loc[t]>>)
         => LET c == loc[t].cid
            IN /\ ConvIds(db') = ConvIds(db)
               /\ \A o \in ConvIds(db) \ {c} :
                    /\ db'.convs[o] = db.convs[o]
                    /\ MsgsOf(db', o) = MsgsOf(db, o)
               /\ c \in ConvIds(db) =>
                    /\ db'.convs[c].id = db.convs[c].id
                    /\ db'.convs[c].title = db.convs[c].title
                    /\ db'.convs[c].system_prompt = db.convs[c].system_prompt
                    /\ db'.convs[c].created_at = db.convs[c].created_at
                    /\ (pc'[t] = "done" /\ resp'[t].status = 200)
                         => Pairs(list_messages(db', c)) = ArgPairs(loc[t].cleaned)
               /\ c \notin ConvIds(db) => MsgsOf(db', c) = {}]_vars

\* C12 witness: conversation 2 had a message and was replaced by the empty
\* list; it still exists with its title and no message, its updated_at is
\* later, and conversation 1 keeps its message.
C12_Witness ==
    \E t \in Threads :
        /\ IsReq(t, "PUT", "msgs") /\ Answered(t, 200)
        /\ loc[t].cid = 2 /\ loc[t].cleaned = <<>>
        /\ 2 \in ConvIds(db) /\ db.convs[2].title = "S"
        /\ db.convs[2].updated_at > db.convs[2].created_at
        /\ MsgsOf(db, 2) = {}
        /\ db.seq_msg = 2
        /\ MsgsOf(db, 1) # {}

\* C13: every failure response to a POST or PUT request (a status of 400 or
\* more), whatever its path, has a JSON body with a non-empty error field.
C13_FailuresAreJson ==
    \A t \in Threads :
        (/\ pc[t] = "done" /\ req[t].method \in {"POST", "PUT"}
         /\ resp[t].status >= 400)
        => /\ resp[t].json
           /\ resp[t].error # ""

\* thread t commits an append, a replace or an update in this step
CommitsWrite(t) ==
    /\ pc'[t] # pc[t]
    /\ \/ pc[t] = "append_update"
       \/ pc[t] = "replace_insert" /\ pc'[t] = "done" /\ resp'[t].status = 200
       \/ pc[t] = "update_exec"

\* C14: listConversations returns every existing conversation once, ordered
\* by updated_at descending, each with the number of messages it owns; and
\* the conversation an append, replace or update was just committed on is
\* listed first: no other conversation has a later updated_at.
C14_ListConversationsOrder ==
    [][\A t \in Threads :
         /\ (pc[t] = "list_conversations" /\ pc'[t] = "done")
              => LET rows == resp'[t].data
                 IN /\ Len(rows) = Cardinality(ConvIds(db))
                    /\ {rows[k].id : k \in DOMAIN rows} = ConvIds(db)
                    /\ \A i, j \in DOMAIN rows :
                         i < j => rows[i].updated_at >= rows[j].updated_at
                    /\ \A k \in DOMAIN rows :
                         rows[k].message_count = Cardinality(MsgsOf(db, rows[k].id))
         /\ (CommitsWrite(t) /\ loc[t].cid \in ConvIds(db'))
              => \A o \in ConvIds(db') :
                   db'.convs[o].updated_at <= db'.convs[loc[t].cid].updated_at]_vars

\* the 400 answers of body validation
BodyErrors == {"invalid role", "invalid role in messages", "messages must be an array"}

\* C15: on the path-scoped routes the checks run in a fixed order.  A
\* request whose id segment is no integer is answered 400 "invalid
\* conversation id" whatever its body; a handler that finds no conversation
\* answers 404 "conversation not found" whatever the body holds and changes
\* nothing; and a body validation error (400) is only sent for an integer id
\* of a conversation that exists.
C15_CheckOrder ==
    [][\A t \in Threads :
         /\ (/\ pc[t] = "idle" /\ pc'[t] # "idle"
             /\ Route(req'[t]) \in PathScoped /\ ~req'[t].idseg.int)
              => /\ pc'[t] = "done"
                 /\ resp'[t] = JsonResponse(400, "invalid conversation id", <<>>)
         /\ (/\ pc[t] \in PathScoped /\ pc'[t] # pc[t]
             /\ loc[t].cid \notin ConvIds(db))
              => /\ pc'[t] = "done"
                 /\ resp'[t] = JsonResponse(404, "conversation not found", <<>>)
                 /\ db' = db
         /\ (/\ pc[t] # "done" /\ pc'[t] = "done"
             /\ resp'[t].status = 400 /\ resp'[t].error \in BodyErrors)
              => /\ req[t].idseg.int
                 /\ loc[t].cid \in ConvIds(db)]_vars

\* C15 witness: a POST with an invalid role on a conversation that does not
\* exist was answered 404, and a PUT whose messages field is no array, on an
\* id segment that is no integer, was answered 400 "invalid conversation id".
C15_Witness ==
    \E t, u \in Threads :
        /\ IsReq(t, "POST", "msgs") /\ Answered(t, 404)
        /\ req[t].body.role = JStr("bogus") /\ req[t].idseg.int
        /\ IsReq(u, "PUT", "msgs") /\ Answered(u, 400)
        /\ ~req[u].idseg.int /\ req[u].body.messages = NotAList
        /\ resp[u].error = "invalid conversation id"

\* C16: a storage call that fails partway is rolled back.  While a call
\* holds its transaction open the committed database does not change; the
\* step in which an INSERT of appendMessage or replaceMessages fails leaves
\* the database as it was before the call (messages, updated_at and all),
\* discards the statements that had run, and sends no response.
C16_FailedCallRolledBack ==
    [][\A t \in Threads :
         /\ (lock = t /\ lock' = t) => db' = db
         /\ (/\ pc[t] \in {"append_insert", "replace_insert"}
             /\ pc'[t] = "done" /\ resp'[t].status # 200)
              => /\ db' = db
                 /\ work' = db
                 /\ lock' = "free"
                 /\ shadow' = shadow
                 /\ resp'[t] = NoResponse]_vars

\* C16 witness: a replaceMessages of two messages on a conversation that
\* owned one message failed on its second INSERT, after the DELETE and the
\* first INSERT ran; the conversation has its old message and updated_at.
C16_Witness ==
    \E t \in Threads :
        /\ IsReq(t, "PUT", "msgs") /\ Answered(t, 0)
        /\ Len(loc[t].cleaned) = 2 /\ loc[t].i = 2
        /\ loc[t].cleaned[2].content = JNull
        /\ loc[t].cid \in ConvIds(db)
        /\ Pairs(list_messages(db, loc[t].cid)) = <<[role |-> "user", content |-> "hi"]>>
        /\ db.convs[loc[t].cid].updated_at = 1
        /\ clock = 2
        /\ db.seq_msg = 1

\* C17: message identifiers are unique and are assigned in increasing order
\* across the store, and none is used again.  The AUTOINCREMENT counter is at
\* least every stored identifier and never decreases, and every message that
\* a commit adds has an identifier above the counter as it was, hence above
\* every identifier stored before, the removed ones included.
C17_MessageIdsNeverReused ==
    [][/\ \A m, n \in db'.msgs : m.id = n.id => m = n
       /\ \A m \in db.msgs : m.id <= db.seq_msg
       /\ \A m \in db'.msgs : m.id <= db'.seq_msg
       /\ db'.seq_msg >= db.seq_msg
       /\ \A m \in db'.msgs \ db.msgs : m.id > db.seq_msg]_vars

\* C17 witness: a replaceMessages by the empty list removed message 1, the
\* only message of the store, and a later appendMessage was given
\* identifier 2.
C17_Witness ==
    \E t, u \in Threads :
        /\ IsReq(t, "PUT", "msgs") /\ Answered(t, 200) /\ loc[t].cleaned = <<>>
        /\ IsReq(u, "POST", "msgs") /\ Answered(u, 201)
        /\ loc[t].cid = loc[u].cid
        /\ {m.id : m \in db.msgs} = {2}

\* C18: when conversation c is deleted after a handler's existence check and
\* before its storage call, the handler creates no state for c.  Every step
\* of an append or replace on a conversation that no longer exists leaves
\* the store, and the open transaction, without conversation c and without
\* a message of c; the append's INSERT fails and no 201 is sent, and a
\* replace with a non-empty list does not answer 200.
C18_NoStateAfterDeletion ==
    [][\A t \in Threads :
         (/\ pc[t] \in {"append_now", "append_insert", "replace_delete", "replace_insert"}
          /\ pc'[t] # pc[t] \/ loc'[t] # loc[t]
          /\ loc[t].cid \notin ConvIds(db))
         => LET c == loc[t].cid
            IN /\ c \notin ConvIds(db') /\ MsgsOf(db', c) = {}
               /\ c \notin ConvIds(work') /\ MsgsOf(work', c) = {}
               /\ pc[t] = "append_insert" => (pc'[t] = "done" /\ resp'[t] = NoResponse)
               /\ (pc[t] = "replace_insert" /\ loc[t].cleaned # <<>>)
                    => (pc'[t] = "done" /\ resp'[t] = NoResponse)]_vars

\* C18 witness: a replace with a non-empty list of valid messages passed the
\* existence check, its conversation was then deleted, and the call failed:
\* no response, no conversation, no message.
C18_Witness ==
    \E t \in Threads :
        /\ IsReq(t, "PUT", "msgs") /\ Answered(t, 0)
        /\ loc[t].cleaned # <<>>
        /\ \A k \in DOMAIN loc[t].cleaned : loc[t].cleaned[k].content # JNull
        /\ loc[t].cid \in 1..db.seq_conv
        /\ loc[t].cid \notin ConvIds(db)
        /\ MsgsOf(db, loc[t].cid) = {}
        /\ lock = "free"

\* the PUT .../messages request of thread t has no body, or a body without
\* a messages field
NoMessagesField(t) ==
    /\ IsReq(t, "PUT", "msgs")
    /\ ~req[t].body.sent \/ req[t].body.messages = Absent

\* C19: a PUT .../messages on an existing conversation whose body is absent
\* or has no messages field is a replacement by the empty list.  The handler
\* passes validation with an empty list, its storage call does not fail, and
\* the step that commits answers 200 {ok: true} and leaves the conversation
\* with no message and with updated_at set to the clock reading of that
\* step, not earlier than the stored one.
C19_AbsentBodyReplacesByEmpty ==
    [][\A t \in Threads :
         (NoMessagesField(t) /\ req[t].idseg.int /\ pc'[t] # pc[t])
         => LET c == loc[t].cid
            IN /\ (pc[t] = "do_PUT_messages" /\ c \in ConvIds(db))
                    => (pc'[t] = "replace_delete" /\ loc'[t].cleaned = <<>>)
               /\ pc[t] = "replace_delete" => pc'[t] = "replace_insert"
               /\ pc[t] = "replace_insert"
                    => /\ pc'[t] = "done"
                       /\ resp'[t] = JsonResponse(200, "", <<>>)
                       /\ MsgsOf(db', c) = {}
                       /\ c \in ConvIds(db) =>
                            /\ c \in ConvIds(db')
                            /\ db'.convs[c].updated_at = clock'
                            /\ db'.convs[c].updated_at >= db.convs[c].updated_at]_vars

\* C19 witness: a PUT with no body and a PUT with the body {} were both
\* answered 200 on conversations that exist; messages had been stored, none
\* is left, and the conversation of the first has a later updated_at.
C19_Witness ==
    \E t, u \in Threads :
        /\ NoMessagesField(t) /\ ~req[t].body.sent /\ Answered(t, 200)
        /\ NoMessagesField(u) /\ req[u].body.sent /\ Answered(u, 200)
        /\ loc[t].cid \in ConvIds(db) /\ loc[u].cid \in ConvIds(db)
        /\ db.seq_msg >= 1 /\ db.msgs = {}
        /\ db.convs[loc[t].cid].updated_at > db.convs[loc[t].cid].created_at

====
